---- MODULE Spec2Model ----
(***************************************************************************)
(* Model of the lifting-app backend: the workout validation module         *)
(* (validateWorkoutSchema, validateExerciseLinking, validateHIITIntervals  *)
(* over the zod schemas) and the Lambda handler that serves /templates and *)
(* /workouts from MongoDB.                                                 *)
(*                                                                         *)
(* JavaScript values are tagged records: [t |-> "string", v |-> s],        *)
(* [t |-> "number", v |-> n], [t |-> "array", v |-> <<...>>],              *)
(* [t |-> "object", v |-> [key |-> value, ...]], [t |-> "null"],           *)
(* [t |-> "undefined"].  A number n stands for n / Unit, so that values    *)
(* that are not whole (1.5, 3600.5) exist in the model.                    *)
(***************************************************************************)
EXTENDS Integers, Sequences, FiniteSets, TLC

\* Resolution of numbers: the value v of a number stands for v / Unit.
Unit == 2

\* Largest number of workout blocks, of exercises in a block, of sets in an
\* exercise and of supersetWith entries in the generated documents, and of
\* documents the modelled 'workouts' collection holds.
MaxBlocks == 2
MaxExercises == 2
MaxSets == 2
MaxRefs == 2
MaxDocs == 2

(***************************************************************************)
(* JavaScript values                                                       *)
(***************************************************************************)
Str(s) == [t |-> "string", v |-> s]
Num(n) == [t |-> "number", v |-> n]
Whole(k) == Num(k * Unit)
Arr(s) == [t |-> "array", v |-> s]
Obj(r) == [t |-> "object", v |-> r]
Null == [t |-> "null"]
Undefined == [t |-> "undefined"]
\* An object one of whose property getters throws when it is read.
Throwing == [t |-> "object", v |-> [sessionId |-> [t |-> "getter-throws"]]]

\* data[key] of JavaScript: undefined when the key is absent.
Get(r, key) == IF key \in DOMAIN r THEN r[key] ELSE Undefined

RECURSIVE Flatten(_)
Flatten(seqs) == IF seqs = <<>> THEN <<>> ELSE Head(seqs) \o Flatten(Tail(seqs))

\* Array.prototype.join
RECURSIVE Join(_, _)
Join(parts, sep) ==
    IF parts = <<>> THEN ""
    ELSE IF Len(parts) = 1 THEN parts[1]
    ELSE parts[1] \o sep \o Join(Tail(parts), sep)

(***************************************************************************)
(* Strings that are tested against a pattern are given by their            *)
(* characters.                                                             *)
(***************************************************************************)
UuidPrefix ==
    << "5","5","0","e","8","4","0","0","-","e","2","9","b","-","4","1","d","4","-",
       "a","7","1","6","-","4","4","6","6","5","5","4","4" >>

Digit == <<"0", "1", "2", "3", "4", "5", "6", "7", "8", "9">>

\* The characters of the UUID of kind k (0 session, 1 block, 2 exercise,
\* 3 goal, 4 other workout, 5 unknown exercise) and index i.
UuidChars(k, i) == UuidPrefix \o <<Digit[k + 1], "0", Digit[(i \div 10) + 1], Digit[(i % 10) + 1]>>

Text(chars) == Join(chars, "")

Uuid(k, i) == Text(UuidChars(k, i))

MalformedChars ==
    { <<"n","o","t","-","a","-","u","u","i","d">>,
      << >>,
      \* a group of 3 where 4 are needed
      UuidPrefix \o <<"0","0","0">>,
      \* 'g' is no hexadecimal digit
      UuidPrefix \o <<"0","0","0","g">>,
      \* no dashes
      << "5","5","0","e","8","4","0","0","e","2","9","b","4","1","d","4",
         "a","7","1","6","4","4","6","6","5","5","4","4","0","0","0","0" >> }

UpperCaseUuidChars ==
    << "5","5","0","E","8","4","0","0","-","E","2","9","B","-","4","1","D","4","-",
       "A","7","1","6","-","4","4","6","6","5","5","4","4","0","0","0","0" >>

MaxIndex == (MaxBlocks * MaxExercises) + MaxBlocks

PatternStrings ==
    { UuidChars(k, i) : k \in 0..5, i \in 0..MaxIndex }
    \cup { UuidChars(0, i) : i \in 0..9 }
    \cup MalformedChars \cup {UpperCaseUuidChars}

\* The characters of a string of the model.
CharsOf == [s \in {Text(c) : c \in PatternStrings} |-> CHOOSE c \in PatternStrings : Text(c) = s]

HexDigit(c) ==
    c \in {"0","1","2","3","4","5","6","7","8","9",
           "a","b","c","d","e","f","A","B","C","D","E","F"}

\* [0-9a-f]{8}-[0-9a-f]{4}-[0-9a-f]{4}-[0-9a-f]{4}-[0-9a-f]{12}, anchored, ignoring case
MatchesUuidPattern(chars) ==
    /\ Len(chars) = 36
    /\ \A i \in 1..36 : IF i \in {9, 14, 19, 24} THEN chars[i] = "-" ELSE HexDigit(chars[i])

\* A uuid check that every string passes.
IsAnyString(s) == TRUE

\* zod's z.string().uuid() check.
ZodUuids == {s \in DOMAIN CharsOf : MatchesUuidPattern(CharsOf[s])}
IsZodUuid(s) == s \in ZodUuids

(***************************************************************************)
(* zod schemas as data                                                     *)
(***************************************************************************)
ZString(checks) == [type |-> "string", checks |-> checks]
ZNumber(checks) == [type |-> "number", checks |-> checks]
ZEnum(values) == [type |-> "enum", values |-> values]
ZArray(element, minLength) == [type |-> "array", element |-> element, minLength |-> minLength]
ZObject(shape) == [type |-> "object", shape |-> shape]
ZOptional(inner) == [type |-> "optional", inner |-> inner]
Field(key, schema) == [key |-> key, schema |-> schema]

CheckUuid == [kind |-> "uuid"]
CheckMinLength(n) == [kind |-> "min", value |-> n]
CheckMin(n) == [kind |-> "min", value |-> n, inclusive |-> TRUE]
CheckMax(n) == [kind |-> "max", value |-> n, inclusive |-> TRUE]
CheckPositive == [kind |-> "min", value |-> 0, inclusive |-> FALSE]

TargetTypes == <<"weight", "time", "reps", "distance", "percentage">>
ExerciseTypes == <<"compound", "isolation", "cardio", "bodyweight">>
BlockTypes == <<"strength", "cardio", "hiit", "superset", "circuit">>

ExerciseTargetSchema ==
    ZObject(<< Field("type", ZEnum(TargetTypes)),
               Field("value", ZNumber(<<CheckPositive>>)),
               Field("unit", ZString(<<CheckMinLength(1)>>)),
               Field("percentageOf1RM", ZOptional(ZNumber(<<CheckMin(0), CheckMax(100)>>))) >>)

ExerciseActualSchema ==
    ZObject(<< Field("weight", ZOptional(ZNumber(<<CheckMin(0)>>))),
               Field("reps", ZOptional(ZNumber(<<CheckMin(0)>>))),
               Field("time", ZOptional(ZNumber(<<CheckMin(0)>>))),
               Field("distance", ZOptional(ZNumber(<<CheckMin(0)>>))),
               Field("RPE", ZOptional(ZNumber(<<CheckMin(1), CheckMax(10)>>))) >>)

\* restAfterSet without its upper bound.
ExerciseSetSchemaNoMax ==
    ZObject(<< Field("setNumber", ZNumber(<<CheckPositive>>)),
               Field("target", ExerciseTargetSchema),
               Field("actual", ZOptional(ExerciseActualSchema)),
               Field("restAfterSet", ZNumber(<<CheckMin(0)>>)),
               Field("notes", ZOptional(ZString(<<>>))) >>)

ExerciseSetSchema ==
    ZObject(<< Field("setNumber", ZNumber(<<CheckPositive>>)),
               Field("target", ExerciseTargetSchema),
               Field("actual", ZOptional(ExerciseActualSchema)),
               Field("restAfterSet", ZNumber(<<CheckMin(0), CheckMax(3600)>>)),
               Field("notes", ZOptional(ZString(<<>>))) >>)

\* sets without its minimum length.
ExerciseSchemaAnySets ==
    ZObject(<< Field("exerciseId", ZString(<<CheckUuid>>)),
               Field("exerciseName", ZString(<<CheckMinLength(1)>>)),
               Field("exerciseType", ZEnum(ExerciseTypes)),
               Field("muscleGroups", ZArray(ZString(<<>>), 1)),
               Field("equipment", ZArray(ZString(<<>>), 0)),
               Field("sets", ZArray(ExerciseSetSchema, 0)),
               Field("supersetWith", ZOptional(ZArray(ZString(<<CheckUuid>>), 0))),
               Field("linkedToWorkout", ZOptional(ZString(<<CheckUuid>>))),
               Field("notes", ZOptional(ZString(<<>>))) >>)

ExerciseSchema ==
    ZObject(<< Field("exerciseId", ZString(<<CheckUuid>>)),
               Field("exerciseName", ZString(<<CheckMinLength(1)>>)),
               Field("exerciseType", ZEnum(ExerciseTypes)),
               Field("muscleGroups", ZArray(ZString(<<>>), 1)),
               Field("equipment", ZArray(ZString(<<>>), 0)),
               Field("sets", ZArray(ExerciseSetSchema, 1)),
               Field("supersetWith", ZOptional(ZArray(ZString(<<CheckUuid>>), 0))),
               Field("linkedToWorkout", ZOptional(ZString(<<CheckUuid>>))),
               Field("notes", ZOptional(ZString(<<>>))) >>)

WorkoutBlockSchema ==
    ZObject(<< Field("blockId", ZString(<<CheckUuid>>)),
               Field("blockType", ZEnum(BlockTypes)),
               Field("exercises", ZArray(ExerciseSchema, 1)),
               Field("restBetweenSets", ZNumber(<<CheckMin(0), CheckMax(3600)>>)),
               Field("restBetweenBlocks", ZNumber(<<CheckMin(0), CheckMax(3600)>>)),
               Field("notes", ZOptional(ZString(<<>>))) >>)

WorkoutGoalSchema ==
    ZObject(<< Field("goalId", ZString(<<CheckUuid>>)),
               Field("exerciseId", ZString(<<CheckUuid>>)),
               Field("goalType", ZEnum(TargetTypes)),
               Field("targetValue", ZNumber(<<CheckPositive>>)),
               Field("targetUnit", ZString(<<CheckMinLength(1)>>)),
               Field("targetDate", ZString(<<>>)),
               Field("currentProgress", ZNumber(<<CheckMin(0)>>)),
               Field("notes", ZOptional(ZString(<<>>))) >>)

MetadataSchema ==
    ZObject(<< Field("notes", ZOptional(ZString(<<>>))),
               Field("mood", ZOptional(ZNumber(<<CheckMin(1), CheckMax(10)>>))),
               Field("energy", ZOptional(ZNumber(<<CheckMin(1), CheckMax(10)>>))),
               Field("tags", ZOptional(ZArray(ZString(<<>>), 0))) >>)

WorkoutSessionSchema ==
    ZObject(<< Field("sessionId", ZString(<<CheckUuid>>)),
               Field("startTime", ZString(<<>>)),
               Field("endTime", ZOptional(ZString(<<>>))),
               Field("workoutBlocks", ZArray(WorkoutBlockSchema, 1)),
               Field("metadata", ZOptional(MetadataSchema)),
               Field("goals", ZOptional(ZArray(WorkoutGoalSchema, 0))) >>)

(***************************************************************************)
(* zod's parser (version 3): issues are collected in the order the parser  *)
(* meets them, an object's keys in the order of the schema's declaration,  *)
(* an array's elements in order; keys the schema does not declare are      *)
(* stripped from the parsed value.                                         *)
(***************************************************************************)
Issue(path, message) == [path |-> path, message |-> message]
Parsed(issues, value) == [issues |-> issues, value |-> value]

QuotedValues(values) == Join([i \in 1..Len(values) |-> "'" \o values[i] \o "'"], " | ")

InvalidType(path, expected, data) ==
    Issue(path, IF data = Undefined THEN "Required"
                ELSE "Expected " \o expected \o ", received " \o data.t)

NumberCheckFails(check, n) ==
    IF check.kind = "min"
    THEN (IF check.inclusive THEN n < check.value * Unit ELSE n <= check.value * Unit)
    ELSE (IF check.inclusive THEN n > check.value * Unit ELSE n >= check.value * Unit)

NumberCheckMessage(check) ==
    IF check.kind = "min"
    THEN "Number must be greater than " \o (IF check.inclusive THEN "or equal to " ELSE "")
         \o ToString(check.value)
    ELSE "Number must be less than " \o (IF check.inclusive THEN "or equal to " ELSE "")
         \o ToString(check.value)

StringCheckFails(check, s) ==
    IF check.kind = "uuid" THEN ~IsZodUuid(s) ELSE Len(s) < check.value

StringCheckMessage(check) ==
    IF check.kind = "uuid" THEN "Invalid uuid"
    ELSE "String must contain at least " \o ToString(check.value) \o " character(s)"

\* The issues of the checks that fail, in the order of the checks.
FailedChecks(checks, data, path) ==
    Flatten([i \in 1..Len(checks) |->
                IF data.t = "string"
                THEN (IF StringCheckFails(checks[i], data.v)
                      THEN <<Issue(path, StringCheckMessage(checks[i]))>> ELSE <<>>)
                ELSE (IF NumberCheckFails(checks[i], data.v)
                      THEN <<Issue(path, NumberCheckMessage(checks[i]))>> ELSE <<>>)])

\* An array whose elements' issues come last element first.
ArrayResultReversed(schema, data, path, items) ==
    Parsed((IF Len(data.v) < schema.minLength
            THEN <<Issue(path, "Array must contain at least "
                                \o ToString(schema.minLength) \o " element(s)")>>
            ELSE <<>>)
           \o Flatten([i \in 1..Len(items) |-> items[Len(items) + 1 - i].issues]),
           Arr([i \in 1..Len(items) |-> items[i].value]))

\* An array's result from its elements' results: the length check's issue comes
\* first.
ArrayResult(schema, data, path, items) ==
    Parsed((IF Len(data.v) < schema.minLength
            THEN <<Issue(path, "Array must contain at least "
                                \o ToString(schema.minLength) \o " element(s)")>>
            ELSE <<>>)
           \o Flatten([i \in 1..Len(items) |-> items[i].issues]),
           Arr([i \in 1..Len(items) |-> items[i].value]))

\* An object schema that passes the keys it does not declare through.
ObjectResultPassthrough(shape, data, results) ==
    Parsed(Flatten([i \in 1..Len(shape) |-> results[i].issues]), data)

\* An object's result from its keys' results, in the order of the shape: a key
\* is set in the result when the input has it.  (The results are bound once, as
\* members of a one-element set.)
ObjectResult(shape, data, results) ==
    LET Build(pairs) ==
            Parsed(Flatten([i \in 1..Len(shape) |-> pairs[i].issues]),
                   Obj([k \in {shape[i].key : i \in {j \in 1..Len(shape) :
                                                       shape[j].key \in DOMAIN data.v}} |->
                          pairs[CHOOSE i \in 1..Len(shape) : shape[i].key = k].value]))
    IN  CHOOSE r \in {Build(pairs) : pairs \in {results}} : TRUE

RECURSIVE _parse(_, _, _)
_parse(schema, data, path) ==
    CASE schema.type = "optional" ->
            IF data = Undefined THEN Parsed(<<>>, Undefined)
            ELSE _parse(schema.inner, data, path)
      [] schema.type = "string" ->
            IF data.t # "string" THEN Parsed(<<InvalidType(path, "string", data)>>, data)
            ELSE Parsed(FailedChecks(schema.checks, data, path), data)
      [] schema.type = "number" ->
            IF data.t # "number" THEN Parsed(<<InvalidType(path, "number", data)>>, data)
            ELSE Parsed(FailedChecks(schema.checks, data, path), data)
      [] schema.type = "enum" ->
            IF data.t # "string"
            THEN Parsed(<<InvalidType(path, QuotedValues(schema.values), data)>>, data)
            ELSE IF \E i \in 1..Len(schema.values) : schema.values[i] = data.v
            THEN Parsed(<<>>, data)
            ELSE Parsed(<<Issue(path, "Invalid enum value. Expected "
                                       \o QuotedValues(schema.values)
                                       \o ", received '" \o data.v \o "'")>>, data)
      [] schema.type = "array" ->
            IF data.t # "array" THEN Parsed(<<InvalidType(path, "array", data)>>, data)
            ELSE ArrayResult(schema, data, path,
                             [i \in 1..Len(data.v) |->
                                _parse(schema.element, data.v[i], Append(path, ToString(i - 1)))])
      [] schema.type = "object" ->
            IF data.t # "object" THEN Parsed(<<InvalidType(path, "object", data)>>, data)
            ELSE ObjectResult(schema.shape, data,
                              [i \in 1..Len(schema.shape) |->
                                 _parse(schema.shape[i].schema,
                                        Get(data.v, schema.shape[i].key),
                                        Append(path, schema.shape[i].key))])

\* Whether reading the input's properties throws.
ReadThrows(data) ==
    /\ data.t = "object"
    /\ \E k \in DOMAIN data.v : data.v[k].t = "getter-throws"

\* schema.parse(data): returns the parsed value, or throws a ZodError that
\* carries the issues, or lets the exception of a throwing getter through.
ParseOutcome(r) ==
    IF r.issues = <<>> THEN [threw |-> FALSE, value |-> r.value]
    ELSE [threw |-> TRUE, error |-> [name |-> "ZodError", errors |-> r.issues]]

parse(schema, data) ==
    IF ReadThrows(data) THEN [threw |-> TRUE, error |-> [name |-> "Error"]]
    ELSE ParseOutcome(_parse(schema, data, <<>>))

(***************************************************************************)
(* The three validators                                                    *)
(***************************************************************************)
\* validateWorkoutSchema catching ZodError only: any other exception leaves the
\* function.
SchemaResultRethrowing(r) ==
    IF ~r.threw THEN [isValid |-> TRUE, validatedData |-> r.value]
    ELSE IF r.error.name = "ZodError"
    THEN [isValid |-> FALSE,
          errors |-> [i \in 1..Len(r.error.errors) |->
                        Join(r.error.errors[i].path, ".") \o ": "
                        \o r.error.errors[i].message]]
    ELSE [thrown |-> r.error]

\* What validateWorkoutSchema returns for the outcome r of the parse.
SchemaResult(r) ==
    IF ~r.threw THEN [isValid |-> TRUE, validatedData |-> r.value]
    ELSE IF r.error.name = "ZodError"
    THEN [isValid |-> FALSE,
          errors |-> [i \in 1..Len(r.error.errors) |->
                        Join(r.error.errors[i].path, ".") \o ": "
                        \o r.error.errors[i].message]]
    ELSE [isValid |-> FALSE, errors |-> <<"Unknown validation error">>]

validateWorkoutSchema(data) == SchemaResult(parse(WorkoutSessionSchema, data))

\* The pattern validateExerciseLinking tests linkedToWorkout against.
LinkedWorkoutPattern(s) == IF s \in DOMAIN CharsOf THEN MatchesUuidPattern(CharsOf[s]) ELSE FALSE

\* if (exercise.supersetWith) / if (exercise.linkedToWorkout): the property is
\* there and is not the empty string.
Truthy(r, key) == key \in DOMAIN r /\ r[key] # Undefined /\ r[key] # Str("")

\* The superset check reporting an ID that is missing once for an exercise.
SupersetErrorsOnce(block, exercise) ==
    IF ~Truthy(exercise.v, "supersetWith") THEN <<>>
    ELSE LET ids == exercise.v.supersetWith.v
             exists(supersetId) ==
                 \E i \in 1..Len(block.v.exercises.v) :
                     block.v.exercises.v[i].v.exerciseId = supersetId
         IN  Flatten([j \in 1..Len(ids) |->
                        IF exists(ids[j]) \/ (\E h \in 1..(j - 1) : ids[h] = ids[j]) THEN <<>>
                        ELSE <<"Superset reference " \o ids[j].v \o " not found in block "
                               \o block.v.blockId.v>>])

SupersetErrors(block, exercise) ==
    IF ~Truthy(exercise.v, "supersetWith") THEN <<>>
    ELSE LET ids == exercise.v.supersetWith.v
             exists(supersetId) ==
                 \E i \in 1..Len(block.v.exercises.v) :
                     block.v.exercises.v[i].v.exerciseId = supersetId
         IN  Flatten([j \in 1..Len(ids) |->
                        IF exists(ids[j]) THEN <<>>
                        ELSE <<"Superset reference " \o ids[j].v \o " not found in block "
                               \o block.v.blockId.v>>])

LinkedWorkoutErrors(exercise) ==
    IF ~Truthy(exercise.v, "linkedToWorkout") THEN <<>>
    ELSE IF LinkedWorkoutPattern(exercise.v.linkedToWorkout.v) THEN <<>>
    ELSE <<"Invalid linked workout UUID: " \o exercise.v.linkedToWorkout.v>>

\* The superset check looking for the exercise in every block of the session.
LinkingErrorsAnyBlock(data) ==
    LET blocks == data.v.workoutBlocks.v
        everywhere == Obj([exercises |-> Arr(Flatten([b \in 1..Len(blocks) |->
                                                        blocks[b].v.exercises.v]))])
    IN  Flatten([b \in 1..Len(blocks) |->
           Flatten([e \in 1..Len(blocks[b].v.exercises.v) |->
              SupersetErrors(Obj(everywhere.v @@ blocks[b].v), blocks[b].v.exercises.v[e])
              \o LinkedWorkoutErrors(blocks[b].v.exercises.v[e])])])

\* The errors pushed by the two nested forEach loops over a parsed session.
LinkingErrors(data) ==
    LET blocks == data.v.workoutBlocks.v
    IN  Flatten([b \in 1..Len(blocks) |->
           Flatten([e \in 1..Len(blocks[b].v.exercises.v) |->
              SupersetErrors(blocks[b], blocks[b].v.exercises.v[e])
              \o LinkedWorkoutErrors(blocks[b].v.exercises.v[e])])])

\* The list of errors returned also when it is empty.
SemanticResultWithEmptyErrors(errors) == [isValid |-> errors = <<>>, errors |-> errors]

\* { isValid: errors.length === 0, errors: errors.length > 0 ? errors : undefined }:
\* reading errors of the result gives undefined when there is no error, which the
\* model writes as a record without errors.
SemanticResult(errors) ==
    IF errors = <<>> THEN [isValid |-> TRUE] ELSE [isValid |-> FALSE, errors |-> errors]

StructureFailure == [isValid |-> FALSE, errors |-> <<"Invalid workout data structure">>]

\* What validateExerciseLinking returns for the outcome r of the parse.
LinkingResult(r) ==
    IF r.threw THEN StructureFailure ELSE SemanticResult(LinkingErrors(r.value))

validateExerciseLinking(workoutData) == LinkingResult(parse(WorkoutSessionSchema, workoutData))

RECURSIVE Sum(_)
Sum(ns) == IF ns = <<>> THEN 0 ELSE Head(ns) + Sum(Tail(ns))

\* The sum of target.value over the sets of the block whose target.type is 'time'.
TotalWorkTime(block) ==
    LET exercises == block.v.exercises.v
    IN  Sum([e \in 1..Len(exercises) |->
               Sum([s \in 1..Len(exercises[e].v.sets.v) |->
                      LET set == exercises[e].v.sets.v[s]
                      IN  IF set.v.target.v.type = Str("time")
                          THEN set.v.target.v.value.v ELSE 0])])

TotalRestTime(block) == block.v.restBetweenSets.v + block.v.restBetweenBlocks.v

\* The bounds 0.1 and 10 counted as extreme.
ExtremeRatioInclusive(work, rest) == 10 * work <= rest \/ work >= 10 * rest

\* ratio < 0.1 || ratio > 10 for ratio = work / rest, rest > 0.
ExtremeRatio(work, rest) == 10 * work < rest \/ work > 10 * rest

TwoDigits(n) == IF n < 10 THEN "0" \o ToString(n) ELSE ToString(n)

\* (work / rest).toFixed(2): the nearest multiple of 0.01, the larger of two
\* equally near ones.
ToFixed2(work, rest) ==
    LET hundredths == ((200 * work) + rest) \div (2 * rest)
    IN  ToString(hundredths \div 100) \o "." \o TwoDigits(hundredths % 100)

HIITBlockErrors(block) ==
    IF block.v.blockType # Str("hiit") THEN <<>>
    ELSE LET totalWorkTime == TotalWorkTime(block)
             totalRestTime == TotalRestTime(block)
         IN  IF totalWorkTime > 0 /\ totalRestTime > 0
                /\ ExtremeRatio(totalWorkTime, totalRestTime)
             THEN <<"HIIT block " \o block.v.blockId.v \o " has extreme work/rest ratio: "
                    \o ToFixed2(totalWorkTime, totalRestTime)>>
             ELSE <<>>

HIITErrors(data) ==
    LET blocks == data.v.workoutBlocks.v
    IN  Flatten([b \in 1..Len(blocks) |-> HIITBlockErrors(blocks[b])])

\* validateHIITIntervals reporting the structural errors themselves.
HIITResultMerging(r) ==
    IF r.threw THEN SchemaResult(r) ELSE SemanticResult(HIITErrors(r.value))

\* What validateHIITIntervals returns for the outcome r of the parse.
HIITResult(r) ==
    IF r.threw THEN StructureFailure ELSE SemanticResult(HIITErrors(r.value))

validateHIITIntervals(workoutData) == HIITResult(parse(WorkoutSessionSchema, workoutData))

(***************************************************************************)
(* Documents                                                               *)
(***************************************************************************)
NoFields == [k \in {} |-> Undefined]

ExerciseTarget(type, value, unit) ==
    Obj([type |-> Str(type), value |-> value, unit |-> Str(unit)])

ExerciseSet(setNumber, target, restAfterSet) ==
    Obj([setNumber |-> Whole(setNumber), target |-> target, restAfterSet |-> restAfterSet])

Exercise(id, name, type, muscleGroups, equipment, sets, optional) ==
    Obj([exerciseId |-> Str(id), exerciseName |-> Str(name), exerciseType |-> Str(type),
         muscleGroups |-> Arr([i \in 1..Len(muscleGroups) |-> Str(muscleGroups[i])]),
         equipment |-> Arr([i \in 1..Len(equipment) |-> Str(equipment[i])]),
         sets |-> Arr(sets)] @@ optional)

WorkoutBlock(id, type, exercises, restBetweenSets, restBetweenBlocks) ==
    Obj([blockId |-> Str(id), blockType |-> Str(type), exercises |-> Arr(exercises),
         restBetweenSets |-> restBetweenSets, restBetweenBlocks |-> restBetweenBlocks])

WorkoutSession(id, blocks, optional) ==
    Obj([sessionId |-> Str(id), startTime |-> Str("2024-01-15T10:00:00Z"),
         workoutBlocks |-> Arr(blocks)] @@ optional)

SupersetWith(ids) == [supersetWith |-> Arr([i \in 1..Len(ids) |-> Str(ids[i])])]

WorkoutGoal(goalId, exerciseId) ==
    Obj([goalId |-> Str(goalId), exerciseId |-> Str(exerciseId), goalType |-> Str("weight"),
         targetValue |-> Whole(225), targetUnit |-> Str("lbs"),
         targetDate |-> Str("2024-06-15T10:00:00Z"), currentProgress |-> Whole(155)])

exampleWorkout ==
    WorkoutSession(Uuid(0, 0),
      << WorkoutBlock(Uuid(0, 1), "strength",
           << Exercise(Uuid(0, 2), "Bench Press", "compound",
                       <<"chest", "triceps", "shoulders">>, <<"barbell", "bench">>,
                       << ExerciseSet(1, ExerciseTarget("weight", Whole(135), "lbs"), Whole(180)),
                          ExerciseSet(2, ExerciseTarget("weight", Whole(155), "lbs"), Whole(180)) >>,
                       NoFields) >>,
           Whole(180), Whole(300)),
         WorkoutBlock(Uuid(0, 4), "superset",
           << Exercise(Uuid(0, 5), "Push-ups", "bodyweight", <<"chest", "triceps">>, <<>>,
                       << ExerciseSet(1, ExerciseTarget("reps", Whole(15), "reps"), Whole(0)) >>,
                       SupersetWith(<<Uuid(0, 3)>>)),
              Exercise(Uuid(0, 3), "Dips", "bodyweight", <<"triceps", "chest">>, <<"dip bars">>,
                       << ExerciseSet(1, ExerciseTarget("reps", Whole(12), "reps"), Whole(120)) >>,
                       SupersetWith(<<Uuid(0, 2)>>)) >>,
           Whole(0), Whole(300)),
         WorkoutBlock(Uuid(0, 6), "hiit",
           << Exercise(Uuid(0, 7), "Burpees", "cardio", <<"full body">>, <<>>,
                       << ExerciseSet(1, ExerciseTarget("time", Whole(20), "seconds"), Whole(20)),
                          ExerciseSet(2, ExerciseTarget("time", Whole(20), "seconds"), Whole(20)) >>,
                       NoFields) >>,
           Whole(20), Whole(300)) >>,
      [goals |-> Arr(<<WorkoutGoal(Uuid(0, 8), Uuid(0, 2))>>)])

(***************************************************************************)
(* The documents the validators are applied to                             *)
(***************************************************************************)
SessionId == Uuid(0, 0)
BlockId(b) == Uuid(1, b)
ExerciseId(b, e) == Uuid(2, ((b - 1) * MaxExercises) + e)
OtherWorkoutId == Uuid(4, 0)
UnknownExerciseId == Uuid(5, 0)

\* The index a path segment names.
IndexOf(segment) == CHOOSE i \in 0..9 : ToString(i) = segment

\* The document with the value at the path replaced (removed when the new
\* value is Undefined); array indices are written as in an error path.
RECURSIVE SetAt(_, _, _)
SetAt(data, path, value) ==
    IF path = <<>> THEN value
    ELSE IF data.t = "object"
    THEN LET key == Head(path)
             new == SetAt(Get(data.v, key), Tail(path), value)
             keys == IF new = Undefined THEN DOMAIN data.v \ {key} ELSE DOMAIN data.v \cup {key}
         IN  Obj([k \in keys |-> IF k = key THEN new ELSE data.v[k]])
    ELSE IF data.t = "array" /\ IndexOf(Head(path)) < Len(data.v)
    THEN LET at == IndexOf(Head(path)) + 1
         IN  Arr([i \in 1..Len(data.v) |->
                    IF i = at THEN SetAt(data.v[i], Tail(path), value) ELSE data.v[i]])
    ELSE data

SeqsUpTo(S, n) == UNION {[1..k -> S] : k \in 0..n}

\* --- sessions for the superset references ---
\* refs maps positions <<b, e>> to the supersetWith list of that exercise; with
\* sharedId every exercise of a block carries the ID of the block's first one.
LinkingSession(nb, ne, refs, sharedId) ==
    WorkoutSession(SessionId,
      [b \in 1..nb |->
         WorkoutBlock(BlockId(b), "superset",
           [e \in 1..ne |->
              Exercise(IF sharedId THEN ExerciseId(b, 1) ELSE ExerciseId(b, e),
                       "Dips", "bodyweight", <<"triceps">>, <<"dip bars">>,
                       <<ExerciseSet(1, ExerciseTarget("reps", Whole(12), "reps"), Whole(120))>>,
                       IF <<b, e>> \in DOMAIN refs THEN SupersetWith(refs[<<b, e>>])
                       ELSE NoFields)],
           Whole(0), Whole(300))],
      NoFields)

\* What an exercise at <<b, e>> may name: itself, its neighbour in the block,
\* the first exercise of the next block, an ID no exercise has.
ReferenceCandidates(nb, ne, b, e) ==
    {ExerciseId(b, e), ExerciseId(b, (e % ne) + 1), ExerciseId((b % nb) + 1, 1),
     UnknownExerciseId}

Positions(nb, ne) == (1..nb) \X (1..ne)

\* The first and the last exercise of a session.
EndPositions(nb, ne) == {<<1, 1>>, <<nb, ne>>}

ReferenceChoices(nb, ne) == {ExerciseId(1, 1), ExerciseId(nb, ne), UnknownExerciseId}

LinkingLayout(nb, ne) ==
    \* one exercise with a supersetWith list of up to MaxRefs entries
    UNION { { LinkingSession(nb, ne, [p \in {pos} |-> refs], sharedId) :
                refs \in SeqsUpTo(ReferenceCandidates(nb, ne, pos[1], pos[2]), MaxRefs),
                sharedId \in BOOLEAN }
            : pos \in EndPositions(nb, ne) }
    \cup
    \* no exercise, or two exercises, with a one-entry list each
    UNION { { LinkingSession(nb, ne, [p \in carriers |-> <<ids[p]>>], FALSE) :
                ids \in [carriers -> ReferenceChoices(nb, ne)] }
            : carriers \in {c \in SUBSET Positions(nb, ne) : Cardinality(c) \in {0, 2}} }

\* Sessions of one block or of MaxBlocks blocks, of one exercise or of
\* MaxExercises exercises each.
LinkingInputs ==
    UNION { LinkingLayout(nb, ne) : nb \in {1, MaxBlocks}, ne \in {1, MaxExercises} }

\* --- sessions for the HIIT work/rest ratio ---
\* The sets an exercise may hold: a time target of 1 or 10 seconds, or a weight.
SetKinds ==
    { ExerciseTarget("time", Whole(1), "seconds"), ExerciseTarget("time", Whole(10), "seconds"),
      ExerciseTarget("weight", Whole(10), "kg") }

\* restBetweenSets and restBetweenBlocks of a block.
RestPairs == { <<0, 0>>, <<1, 0>>, <<0, 10>>, <<1, 10>> }

Burpees(b, e, sets) == Exercise(ExerciseId(b, e), "Burpees", "cardio", <<"full body">>, <<>>, sets, NoFields)

\* A block holding the given targets, in one exercise or in one exercise each.
IntervalBlock(b, type, targets, rests, split) ==
    WorkoutBlock(BlockId(b), type,
      IF split /\ Len(targets) <= MaxExercises
      THEN [e \in 1..Len(targets) |->
              Burpees(b, e, <<ExerciseSet(1, targets[e], Whole(20))>>)]
      ELSE <<Burpees(b, 1, [s \in 1..Len(targets) |-> ExerciseSet(s, targets[s], Whole(20))])>>,
      Whole(rests[1]), Whole(rests[2]))

IntervalBlocks(b) ==
    { IntervalBlock(b, type, targets, rests, split) :
        type \in {"hiit", "strength"},
        targets \in SeqsUpTo(SetKinds, MaxSets) \ {<<>>},
        rests \in RestPairs,
        split \in BOOLEAN }

\* The blocks of a session of several blocks: ratio 0.05, ratio 0.1, ratio 11,
\* ratio 11 in a block that is no hiit block, and ratio 1.
SeveralBlocks(b) ==
    { IntervalBlock(b, "hiit", <<ExerciseTarget("time", Whole(1), "seconds")>>, <<10, 10>>, FALSE),
      IntervalBlock(b, "hiit", <<ExerciseTarget("time", Whole(1), "seconds")>>, <<0, 10>>, FALSE),
      IntervalBlock(b, "hiit", <<ExerciseTarget("time", Whole(11), "seconds")>>, <<1, 0>>, FALSE),
      IntervalBlock(b, "circuit", <<ExerciseTarget("time", Whole(11), "seconds")>>, <<1, 0>>, FALSE),
      IntervalBlock(b, "hiit", <<ExerciseTarget("time", Whole(1), "seconds")>>, <<1, 0>>, FALSE) }

RECURSIVE BlockLists(_, _)
\* The lists of blocks b .. nb from SeveralBlocks.
BlockLists(b, nb) ==
    IF b > nb THEN {<<>>}
    ELSE { <<first>> \o rest : first \in SeveralBlocks(b), rest \in BlockLists(b + 1, nb) }

\* Sessions of one block of every kind, and sessions of 2 .. MaxBlocks blocks.
IntervalInputs ==
    { WorkoutSession(SessionId, blocks, NoFields) :
        blocks \in {<<block>> : block \in IntervalBlocks(1)}
                   \cup UNION {BlockLists(1, nb) : nb \in 2..MaxBlocks} }

\* --- sessions with one or two fields changed ---
\* A session of MaxBlocks blocks of MaxExercises exercises of MaxSets sets.  When
\* sound every check passes; otherwise the first exercise names an exercise that
\* does not exist and the first block is a hiit block with ratio 1 : 20.
FullSession(sound) ==
    WorkoutSession(SessionId,
      [b \in 1..MaxBlocks |->
         WorkoutBlock(BlockId(b), IF sound THEN "strength" ELSE "hiit",
           [e \in 1..MaxExercises |->
              Exercise(ExerciseId(b, e), "Bench Press", "compound", <<"chest">>, <<"barbell">>,
                       [n \in 1..MaxSets |->
                          IF sound
                          THEN ExerciseSet(n, ExerciseTarget("weight", Whole(135), "lbs"), Whole(180))
                          ELSE ExerciseSet(n, ExerciseTarget(IF n = 1 /\ e = 1 THEN "time" ELSE "reps",
                                                             Whole(1), "seconds"), Whole(20))],
                       SupersetWith(<<IF ~sound /\ b = 1 /\ e = 1 THEN UnknownExerciseId
                                      ELSE ExerciseId(b, (e % MaxExercises) + 1)>>)
                       @@ [linkedToWorkout |-> Str(OtherWorkoutId)])],
           Whole(10), Whole(10))],
      [metadata |-> Obj([notes |-> Str("felt strong"), mood |-> Whole(7),
                         tags |-> Arr(<<Str("push")>>)]),
       goals |-> Arr(<<WorkoutGoal(Uuid(3, 0), ExerciseId(1, 1))>>)])

\* The first and the last index of an array of n elements.
Ends(n) == {"0", ToString(n - 1)}

BlockPaths == {<<"workoutBlocks", b>> : b \in Ends(MaxBlocks)}
ExercisePaths == {bp \o <<"exercises", e>> : bp \in BlockPaths, e \in Ends(MaxExercises)}
SetPaths == {ep \o <<"sets", n>> : ep \in ExercisePaths, n \in Ends(MaxSets)}

At(paths, field, values) == {<<p \o field, v>> : p \in paths, v \in values}

RestPaths ==
    {bp \o <<"restBetweenSets">> : bp \in BlockPaths}
    \cup {bp \o <<"restBetweenBlocks">> : bp \in BlockPaths}
    \cup {sp \o <<"restAfterSet">> : sp \in SetPaths}

RestValues ==
    { Whole(-1), Num(-1), Whole(0), Num(1), Whole(3600), Num((3600 * Unit) + 1), Whole(3601),
      Whole(4000), Str("90"), Null, Undefined }

RestChanges == At(RestPaths, <<>>, RestValues)

CardinalityChanges ==
    At({<<>>}, <<"workoutBlocks">>, {Arr(<<>>)})
    \cup At(BlockPaths, <<"exercises">>, {Arr(<<>>)})
    \cup At(ExercisePaths, <<"sets">>, {Arr(<<>>)})
    \cup At(ExercisePaths, <<"equipment">>, {Arr(<<>>)})
    \cup At(ExercisePaths, <<"muscleGroups">>, {Arr(<<>>)})
    \cup At(ExercisePaths, <<"supersetWith">>, {Arr(<<>>)})
    \cup At({<<>>}, <<"goals">>, {Arr(<<>>)})
    \cup At({<<>>}, <<"metadata", "tags">>, {Arr(<<>>)})

SetNumberChanges ==
    At(SetPaths, <<"setNumber">>,
       {Whole(0), Whole(-1), Num(1), Num(Unit + 1), Whole(7), Str("1"), Undefined})

MalformedIds == {Str(Text(c)) : c \in MalformedChars} \cup {Whole(5), Undefined}

IdChanges ==
    At({<<>>}, <<"sessionId">>, MalformedIds \cup {Str(Text(UpperCaseUuidChars))})
    \cup At(BlockPaths, <<"blockId">>, MalformedIds)
    \cup At(ExercisePaths, <<"exerciseId">>, MalformedIds)
    \cup At(ExercisePaths, <<"linkedToWorkout">>,
            MalformedIds \cup {Str(Text(UpperCaseUuidChars))})
    \cup At(ExercisePaths, <<"supersetWith", "0">>, MalformedIds \ {Undefined})
    \cup At({<<>>}, <<"goals", "0", "goalId">>, MalformedIds)

EnumChanges ==
    At(BlockPaths, <<"blockType">>, {Str("yoga"), Str("hiit"), Str("HIIT"), Whole(1), Undefined})
    \cup At(ExercisePaths, <<"exerciseType">>, {Str("stretch"), Str("cardio"), Undefined})
    \cup At(SetPaths, <<"target", "type">>, {Str("time"), Str("calories"), Null})

TargetChanges ==
    At(SetPaths, <<"target", "value">>, {Whole(0), Whole(-5), Num(1), Str("135")})
    \cup At(SetPaths, <<"target", "unit">>, {Str(""), Undefined})
    \cup At(SetPaths, <<"target", "percentageOf1RM">>, {Whole(0), Whole(100), Whole(101), Num(-1)})
    \cup At(SetPaths, <<"target">>, {Undefined, Null, Arr(<<>>)})
    \cup At(SetPaths, <<"actual">>,
            { Obj([weight |-> Whole(0), reps |-> Whole(8), RPE |-> Whole(10)]),
              Obj([RPE |-> Whole(11)]), Obj([weight |-> Num(-1)]), Str("none") })

\* Properties the schemas do not declare.
UndeclaredChanges ==
    At({<<>>}, <<"userId">>, {Str("user-1")})
    \cup At({<<>>}, <<"metadata", "weather">>, {Str("rain")})
    \cup At(BlockPaths, <<"order">>, {Whole(1)})
    \cup At(ExercisePaths, <<"tempo">>, {Str("3-1-1")})
    \cup At(SetPaths, <<"completed">>, {Null})
    \cup At(SetPaths, <<"target", "band">>, {Str("red")})

SessionChanges ==
    At({<<>>}, <<"startTime">>, {Undefined, Str("yesterday"), Whole(0)})
    \cup At({<<>>}, <<"endTime">>, {Str("2024-01-15T11:00:00Z"), Null})
    \cup At({<<>>}, <<"workoutBlocks">>, {Undefined, Null, Obj(NoFields), Str("none")})
    \cup At({<<>>}, <<"metadata">>, {Undefined, Null, Obj(NoFields)})
    \cup At({<<>>}, <<"metadata", "mood">>, {Whole(0), Whole(1), Whole(10), Whole(11)})
    \cup At({<<>>}, <<"goals">>, {Undefined, Obj(NoFields)})
    \cup At({<<>>}, <<"goals", "0", "targetValue">>, {Whole(0)})
    \cup At({<<>>}, <<"sessionId">>, {[t |-> "getter-throws"]})

Changes ==
    RestChanges \cup CardinalityChanges \cup SetNumberChanges \cup IdChanges \cup EnumChanges
    \cup TargetChanges \cup UndeclaredChanges \cup SessionChanges

\* The changes that are combined in pairs.
PairedChanges ==
    { <<<<"workoutBlocks", "0", "exercises", "0", "sets", "0", "restAfterSet">>, Whole(4000)>>,
      <<<<"workoutBlocks", "0", "restBetweenSets">>, Whole(-1)>>,
      <<<<"workoutBlocks", "0", "restBetweenBlocks">>, Whole(3601)>>,
      <<<<"workoutBlocks", "0", "exercises", "0", "sets">>, Arr(<<>>)>>,
      <<<<"workoutBlocks", "0", "exercises", "0", "sets", "0", "setNumber">>, Whole(0)>>,
      <<<<"workoutBlocks", "0", "exercises", "0", "equipment">>, Arr(<<>>)>>,
      <<<<"workoutBlocks", "0", "blockType">>, Str("yoga")>>,
      <<<<"sessionId">>, Str("not-a-uuid")>>,
      <<<<"startTime">>, Undefined>>,
      <<<<"userId">>, Str("user-1")>>,
      <<<<"workoutBlocks", ToString(MaxBlocks - 1), "restBetweenSets">>, Whole(-1)>>,
      <<<<"workoutBlocks", "0", "exercises", "0", "sets", ToString(MaxSets - 1), "restAfterSet">>,
        Whole(4000)>> }

ChangedInputs ==
    { SetAt(FullSession(sound), c[1], c[2]) : sound \in BOOLEAN, c \in Changes }
    \cup { SetAt(SetAt(FullSession(TRUE), c[1], c[2]), d[1], d[2]) :
             c \in PairedChanges, d \in PairedChanges }

\* --- values that are no sessions ---
OtherInputs ==
    { Null, Undefined, Whole(5), Str("workout"), Arr(<<>>), Arr(<<FullSession(TRUE)>>),
      Obj(NoFields), Throwing, exampleWorkout, FullSession(TRUE), FullSession(FALSE) }

Inputs == LinkingInputs \cup IntervalInputs \cup ChangedInputs \cup OtherInputs

(***************************************************************************)
(* State                                                                   *)
(***************************************************************************)
VARIABLES
    input,          \* the value the validators are applied to
    result1,        \* what validateWorkoutSchema returned
    result2,        \* what validateExerciseLinking returned
    result3,        \* what validateHIITIntervals returned
    cachedClient,   \* the Lambda container's cached MongoClient, or Null
    cachedDb,       \* the container's cached Db, or Null
    workouts,       \* the documents of the 'workouts' collection, oldest first
    workouttemplates, \* the documents of the 'workouttemplates' collection
    request,        \* the event of the last invocation of the handler
    connection,     \* what connectToDatabase did in the last invocation
    response        \* what the last invocation of the handler returned

vars == <<input, result1, result2, result3, cachedClient, cachedDb, workouts,
          workouttemplates, request, connection, response>>

validationVars == <<input, result1, result2, result3>>
handlerVars == <<cachedClient, cachedDb, workouts, workouttemplates, request, connection, response>>

NotCalled == [called |-> FALSE]
NoRequest == [path |-> "", httpMethod |-> "", body |-> Null]

(***************************************************************************)
(* The calls of the validators, in the order of demonstrateValidation      *)
(***************************************************************************)
CallValidateWorkoutSchema ==
    /\ result1 = NotCalled
    /\ result1' = validateWorkoutSchema(input)
    /\ UNCHANGED <<input, result2, result3>>
    /\ UNCHANGED handlerVars

CallValidateExerciseLinking ==
    /\ result1 # NotCalled
    /\ result2 = NotCalled
    /\ result2' = validateExerciseLinking(input)
    /\ UNCHANGED <<input, result1, result3>>
    /\ UNCHANGED handlerVars

CallValidateHIITIntervals ==
    /\ result2 # NotCalled
    /\ result3 = NotCalled
    /\ result3' = validateHIITIntervals(input)
    /\ UNCHANGED <<input, result1, result2>>
    /\ UNCHANGED handlerVars

(***************************************************************************)
(* The Lambda handler                                                      *)
(***************************************************************************)
\* collection.find({}).limit(10)
FindLimit == 10

TheClient == [uri |-> "MONGODB_URI"]
TheDb == [name |-> "DATABASE_NAME"]

\* The first n documents of a collection.
Limit(docs, n) == IF Len(docs) <= n THEN docs ELSE SubSeq(docs, 1, n)

\* { ...body }: the own enumerable properties of the value.
Spread(value) ==
    IF value.t = "object" THEN value.v
    ELSE IF value.t = "array" THEN [k \in {ToString(i - 1) : i \in 1..Len(value.v)} |->
                                      value.v[IndexOf(k) + 1]]
    ELSE NoFields

ServerError(error, details) ==
    [statusCode |-> 500, body |-> [success |-> FALSE, error |-> error, details |-> details]]

\* getWorkoutTemplates(db); the query rejects when ~dbOk.
getWorkoutTemplates(dbOk) ==
    IF dbOk
    THEN [statusCode |-> 200,
          body |-> [success |-> TRUE, data |-> Limit(workouttemplates, FindLimit),
                    count |-> Len(Limit(workouttemplates, FindLimit)),
                    message |-> "Workout templates retrieved successfully"]]
    ELSE ServerError("Failed to fetch workout templates", "db")

\* getWorkouts(db)
getWorkouts(dbOk) ==
    IF dbOk
    THEN [statusCode |-> 200,
          body |-> [success |-> TRUE, data |-> Limit(workouts, FindLimit),
                    count |-> Len(Limit(workouts, FindLimit)),
                    message |-> "Workouts retrieved successfully"]]
    ELSE ServerError("Failed to fetch workouts", "db")

\* The document createWorkout builds from the request's body, or Undefined when
\* JSON.parse throws.  A body is Null (none), [t |-> "text", json |-> value] (the
\* JSON text of the value) or [t |-> "text", malformed |-> TRUE].
WorkoutOf(body, now) ==
    IF body # Null /\ "malformed" \in DOMAIN body THEN Undefined
    ELSE Obj([createdAt |-> Str(now), updatedAt |-> Str(now)]
             @@ Spread(IF body = Null THEN Obj(NoFields) ELSE body.json))

\* What createWorkout(db, event) returns, for the document it inserted.
Created(workout, insertedId) ==
    [statusCode |-> 201,
     body |-> [success |-> TRUE, data |-> Obj([_id |-> Str(insertedId)] @@ workout.v),
               message |-> "Workout created successfully"]]

RouteNotFound(event) ==
    [statusCode |-> 404,
     body |-> [message |-> "Route not found", path |-> event.path, method |-> event.httpMethod]]

\* A failure answered with another status code.
ServiceUnavailable ==
    [statusCode |-> 503, body |-> [message |-> "Internal server error", error |-> "connect"]]

InternalServerError ==
    [statusCode |-> 500, body |-> [message |-> "Internal server error", error |-> "connect"]]

\* connectToDatabase connecting whether or not a client is cached.
connectToDatabaseAlways(connectOk) ==
    IF connectOk
    THEN connection' = "connected" /\ cachedClient' = TheClient /\ cachedDb' = TheDb
    ELSE connection' = "failed" /\ UNCHANGED <<cachedClient, cachedDb>>

\* connectToDatabase(): returns the cached client and db when both are set;
\* otherwise calls client.connect(), which succeeds when connectOk, and caches
\* the client and the db after it.  connection records what the call did.
connectToDatabase(connectOk) ==
    IF cachedClient # Null /\ cachedDb # Null
    THEN connection' = "reused" /\ UNCHANGED <<cachedClient, cachedDb>>
    ELSE IF connectOk
    THEN connection' = "connected" /\ cachedClient' = TheClient /\ cachedDb' = TheDb
    ELSE connection' = "failed" /\ UNCHANGED <<cachedClient, cachedDb>>

\* One invocation of the handler: connectToDatabase, then the route.  connectOk
\* and dbOk say whether client.connect() and the collection's operation succeed,
\* now is the clock's reading.
handler(event, connectOk, dbOk, now) ==
    LET cached == cachedClient # Null /\ cachedDb # Null
        route == <<event.path, event.httpMethod>>
        workout == WorkoutOf(event.body, now)
        insertedId == "id-" \o ToString(Len(workouts) + 1)
    IN  /\ request' = event
        /\ UNCHANGED workouttemplates
        /\ connectToDatabase(connectOk)
        /\ IF ~cached /\ ~connectOk
           THEN response' = InternalServerError /\ UNCHANGED workouts
           ELSE IF route = <<"/templates", "GET">>
           THEN response' = getWorkoutTemplates(dbOk) /\ UNCHANGED workouts
           ELSE IF route = <<"/workouts", "GET">>
           THEN response' = getWorkouts(dbOk) /\ UNCHANGED workouts
           ELSE IF route = <<"/workouts", "POST">>
           THEN \* createWorkout(db, event)
                IF workout = Undefined
                THEN response' = ServerError("Failed to create workout", "JSON.parse")
                     /\ UNCHANGED workouts
                ELSE IF ~dbOk
                THEN response' = ServerError("Failed to create workout", "db")
                     /\ UNCHANGED workouts
                ELSE /\ workouts' = Append(workouts, Obj([_id |-> Str(insertedId)] @@ workout.v))
                     /\ response' = Created(workout, insertedId)
           ELSE response' = RouteNotFound(event) /\ UNCHANGED workouts

\* Scenario 1: one strength block, one exercise, one set.
ScenarioSession ==
    WorkoutSession(SessionId,
      << WorkoutBlock(BlockId(1), "strength",
           << Exercise(ExerciseId(1, 1), "Bench Press", "compound", <<"chest">>, <<"barbell">>,
                       <<ExerciseSet(1, ExerciseTarget("weight", Whole(135), "lbs"), Whole(180))>>,
                       NoFields) >>,
           Whole(180), Whole(300)) >>,
      NoFields)

JsonText(value) == [t |-> "text", json |-> value]

Bodies ==
    { Null, [t |-> "text", malformed |-> TRUE],
      JsonText(ScenarioSession),
      \* Scenario 2
      JsonText(SetAt(ScenarioSession,
                     <<"workoutBlocks", "0", "exercises", "0", "sets", "0", "restAfterSet">>,
                     Whole(4000))),
      JsonText(Obj(NoFields)), JsonText(Whole(5)), JsonText(Arr(<<Str("squat")>>)) }

Events ==
    { [path |-> p, httpMethod |-> m, body |-> Null] :
        p \in {"/templates", "/workouts", "/health"}, m \in {"GET", "DELETE"} }
    \cup { [path |-> p, httpMethod |-> "POST", body |-> b] :
             p \in {"/templates", "/workouts"}, b \in Bodies }

Timestamps == {"2024-01-15T10:00:00.000Z", "2024-01-20T10:00:00.000Z"}

Invoke ==
    \E event \in Events, connectOk \in BOOLEAN, dbOk \in BOOLEAN, now \in Timestamps :
        \* the collection of the model holds at most MaxDocs documents
        /\ (event.path = "/workouts" /\ event.httpMethod = "POST") => Len(workouts) < MaxDocs
        /\ handler(event, connectOk, dbOk, now)
        /\ UNCHANGED validationVars

(***************************************************************************)
(* Specifications                                                          *)
(***************************************************************************)
HandlerIdle ==
    /\ cachedClient = Null
    /\ cachedDb = Null
    /\ workouts = <<>>
    /\ request = NoRequest
    /\ connection = "none"
    /\ response = [statusCode |-> 0]

\* The validators applied to one input.
Init ==
    /\ input \in Inputs
    /\ result1 = NotCalled
    /\ result2 = NotCalled
    /\ result3 = NotCalled
    /\ workouttemplates = <<>>
    /\ HandlerIdle

Next ==
    \/ CallValidateWorkoutSchema
    \/ CallValidateExerciseLinking
    \/ CallValidateHIITIntervals

Spec == Init /\ [][Next]_vars

\* A container serving requests.
HandlerInit ==
    /\ input = Null
    /\ result1 = NotCalled
    /\ result2 = NotCalled
    /\ result3 = NotCalled
    /\ workouttemplates \in {<<>>, <<Obj([name |-> Str("Push day")])>>}
    /\ HandlerIdle

HandlerNext == Invoke

HandlerSpec == HandlerInit /\ [][HandlerNext]_vars

(***************************************************************************)
(* Properties                                                              *)
(***************************************************************************)
Contains(seq, x) == \E i \in 1..Len(seq) : seq[i] = x

\* The blocks of a structurally valid input, and the exercises of a block.
BlocksOf(data) == data.v.workoutBlocks.v
ExercisesOf(block) == block.v.exercises.v
\* The supersetWith entries of an exercise, none when it has no supersetWith.
ReferencesOf(exercise) ==
    IF "supersetWith" \in DOMAIN exercise.v THEN exercise.v.supersetWith.v ELSE <<>>

SchemaValid == result1 # NotCalled /\ result1.isValid
SchemaInvalid == result1 # NotCalled /\ ~result1.isValid

\* C1: when validateWorkoutSchema rejects an input, validateExerciseLinking and
\* validateHIITIntervals both return isValid = false with exactly the one
\* message "Invalid workout data structure".
C1_MonotonicMasking ==
    SchemaInvalid =>
        /\ result2 # NotCalled =>
              result2 = [isValid |-> FALSE, errors |-> <<"Invalid workout data structure">>]
        /\ result3 # NotCalled =>
              result3 = [isValid |-> FALSE, errors |-> <<"Invalid workout data structure">>]

\* C1's case: a session with a missing superset reference and an extreme HIIT
\* ratio that also breaks a rest bound has gone through the three validators.
C1_Witness ==
    /\ input = SetAt(FullSession(FALSE),
                     <<"workoutBlocks", "0", "exercises", "0", "sets", "0", "restAfterSet">>,
                     Whole(4000))
    /\ SchemaInvalid
    /\ result3 # NotCalled

\* Whether the ID is the exerciseId of an exercise of the block other than the
\* e-th.
C2_NamesAnotherExercise(block, e, id) ==
    \E j \in 1..Len(ExercisesOf(block)) : j # e /\ ExercisesOf(block)[j].v.exerciseId = id

\* C2: for a structurally valid session validateExerciseLinking returns
\* isValid = true exactly when every supersetWith entry is the exerciseId of
\* another exercise of the same block (so that an exercise naming only itself is
\* rejected).
C2_OtherExerciseOnly ==
    (result2 # NotCalled /\ SchemaValid) =>
        (result2.isValid <=>
            \A b \in 1..Len(BlocksOf(input)) :
              \A e \in 1..Len(ExercisesOf(BlocksOf(input)[b])) :
                LET exercise == ExercisesOf(BlocksOf(input)[b])[e]
                IN  \A k \in 1..Len(ReferencesOf(exercise)) :
                      C2_NamesAnotherExercise(BlocksOf(input)[b], e, ReferencesOf(exercise)[k]))

\* Whether the ID is the exerciseId of some exercise of the block.
C3_InBlock(block, id) ==
    \E j \in 1..Len(ExercisesOf(block)) : ExercisesOf(block)[j].v.exerciseId = id

\* C3: in a structurally valid session every supersetWith entry that is the
\* exerciseId of no exercise of its own block makes validateExerciseLinking
\* return isValid = false with the message naming the ID and the block, also
\* when another block holds an exercise with that ID.
C3_CrossBlockReferencesInvalid ==
    (result2 # NotCalled /\ SchemaValid) =>
        \A b \in 1..Len(BlocksOf(input)) :
          \A e \in 1..Len(ExercisesOf(BlocksOf(input)[b])) :
            LET block == BlocksOf(input)[b]
                refs == ReferencesOf(ExercisesOf(block)[e])
            IN  \A k \in 1..Len(refs) :
                  ~C3_InBlock(block, refs[k]) =>
                      /\ ~result2.isValid
                      /\ Contains(result2.errors,
                                  "Superset reference " \o refs[k].v \o " not found in block "
                                  \o block.v.blockId.v)

\* C3's case: exampleWorkout, whose 'Dips' names the 'Bench Press' of the
\* strength block, was rejected with the message for that reference.
C3_Witness ==
    /\ input = exampleWorkout
    /\ result2 # NotCalled
    /\ C3_InBlock(BlocksOf(input)[1], Str(Uuid(0, 2)))
    /\ ~C3_InBlock(BlocksOf(input)[2], Str(Uuid(0, 2)))
    /\ result2.errors = << "Superset reference " \o Uuid(0, 2) \o " not found in block "
                           \o Uuid(0, 4) >>

\* The sets of all the exercises of a block.
C4_Sets(block) ==
    Flatten([e \in 1..Len(ExercisesOf(block)) |-> ExercisesOf(block)[e].v.sets.v])

\* totalWorkTime and totalRestTime of the claim.
C4_Work(block) ==
    Sum([i \in 1..Len(C4_Sets(block)) |->
           IF C4_Sets(block)[i].v.target.v.type.v = "time"
           THEN C4_Sets(block)[i].v.target.v.value.v ELSE 0])

C4_Rest(block) == block.v.restBetweenSets.v + block.v.restBetweenBlocks.v

\* A hiit block with both totals positive and work / rest below 1/10 or above 10.
C4_Offending(block) ==
    /\ block.v.blockType.v = "hiit"
    /\ C4_Work(block) > 0
    /\ C4_Rest(block) > 0
    /\ \/ C4_Work(block) * 10 < C4_Rest(block)
       \/ C4_Work(block) > C4_Rest(block) * 10

C4_OffendingBlocks == {b \in 1..Len(BlocksOf(input)) : C4_Offending(BlocksOf(input)[b])}

\* C4: for a structurally valid session validateHIITIntervals returns
\* isValid = false exactly when some hiit block has totalWorkTime > 0,
\* totalRestTime > 0 and a ratio below 0.1 or above 10 (0.1 and 10 themselves are
\* accepted, a zero total gives no error, a block that is no hiit block gives no
\* error), with one message for each such block.
C4_HIITRatio ==
    (result3 # NotCalled /\ SchemaValid) =>
        /\ result3.isValid <=> C4_OffendingBlocks = {}
        /\ ~result3.isValid => Len(result3.errors) = Cardinality(C4_OffendingBlocks)

\* C4's case: a hiit block with ratio exactly 0.1 or exactly 10 was accepted
\* beside a hiit block that was reported, in one session.
C4_Witness ==
    /\ result3 # NotCalled
    /\ SchemaValid
    /\ Len(BlocksOf(input)) >= 2
    /\ \E b \in 1..Len(BlocksOf(input)) :
          /\ BlocksOf(input)[b].v.blockType.v = "hiit"
          /\ C4_Work(BlocksOf(input)[b]) > 0
          /\ \/ C4_Work(BlocksOf(input)[b]) * 10 = C4_Rest(BlocksOf(input)[b])
             \/ C4_Work(BlocksOf(input)[b]) = C4_Rest(BlocksOf(input)[b]) * 10
    /\ ~result3.isValid
    /\ Len(result3.errors) = 1

C5_Shape(r, ofSchema) ==
    /\ r.isValid <=> "errors" \notin DOMAIN r
    /\ ~r.isValid => ("errors" \in DOMAIN r /\ Len(r.errors) > 0)
    /\ "validatedData" \in DOMAIN r <=> (ofSchema /\ r.isValid)

\* C5: every result has isValid = true exactly when it has no errors and
\* isValid = false exactly when errors is a non-empty list; validatedData is
\* there exactly in a result of validateWorkoutSchema with isValid = true.
C5_ResultShape ==
    /\ result1 # NotCalled => C5_Shape(result1, TRUE)
    /\ result2 # NotCalled => C5_Shape(result2, FALSE)
    /\ result3 # NotCalled => C5_Shape(result3, FALSE)

\* C5's case: the three validators have returned, one of them with errors and
\* two without.
C5_Witness ==
    /\ result3 # NotCalled
    /\ result1.isValid
    /\ ~result2.isValid
    /\ result3.isValid

\* C6: every call returns a result record, for every input; when reading the
\* input throws, validateWorkoutSchema returns exactly isValid = false with the
\* one message "Unknown validation error".
C6_NeverThrows ==
    /\ result1 # NotCalled =>
          /\ "isValid" \in DOMAIN result1
          /\ ReadThrows(input) =>
                result1 = [isValid |-> FALSE, errors |-> <<"Unknown validation error">>]
    /\ result2 # NotCalled => "isValid" \in DOMAIN result2
    /\ result3 # NotCalled => "isValid" \in DOMAIN result3

\* C6's case: an input whose getter throws has gone through the three
\* validators.
C6_Witness ==
    /\ result3 # NotCalled
    /\ ReadThrows(input)
    /\ Len(result1.errors) = 1

\* C7 as claimed: when validateWorkoutSchema accepts x, validatedData has exactly
\* the fields and values of x, the fields no schema declares included.
C7_RoundTrip == SchemaValid => result1.validatedData = input

\* The value with the properties the schema does not declare removed, at every
\* level.
RECURSIVE C7_Declared(_, _)
C7_Declared(schema, value) ==
    CASE schema.type = "optional" -> C7_Declared(schema.inner, value)
      [] schema.type = "object" ->
            Obj([k \in {key \in DOMAIN value.v :
                          \E i \in 1..Len(schema.shape) : schema.shape[i].key = key} |->
                   C7_Declared((CHOOSE f \in {schema.shape[i] : i \in 1..Len(schema.shape)} :
                                   f.key = k).schema,
                               value.v[k])])
      [] schema.type = "array" ->
            Arr([i \in 1..Len(value.v) |-> C7_Declared(schema.element, value.v[i])])
      [] OTHER -> value

\* C7 as amended: when validateWorkoutSchema accepts x, validatedData has exactly
\* the fields of x that the schemas declare, with the values of x, at every
\* level: an undeclared field is dropped, no field is added.
C7_DeclaredFieldsRoundTrip ==
    SchemaValid => result1.validatedData = C7_Declared(WorkoutSessionSchema, input)

\* C7's case: an accepted input with undeclared fields, which validatedData
\* does not have.
C7_Witness ==
    /\ SchemaValid
    /\ "userId" \in DOMAIN input.v
    /\ "userId" \notin DOMAIN result1.validatedData.v
    /\ result1.validatedData # input

\* The document of the last request's body, without what createWorkout adds.
C8_Body == IF request.body = Null THEN Obj(NoFields) ELSE request.body.json

\* C8: POST /workouts inserts a document only when validateWorkoutSchema accepts
\* the parsed body, and stores the validatedData.
C8_PersistOnlyValidated ==
    response.statusCode = 201 =>
        /\ validateWorkoutSchema(C8_Body).isValid
        /\ LET stored == workouts[Len(workouts)].v
           IN  Obj([k \in DOMAIN stored \ {"_id", "createdAt", "updatedAt"} |-> stored[k]])
               = validateWorkoutSchema(C8_Body).validatedData

\* The elements of the array at the key of an object; none when the value is no
\* object or has no array there.
ElementsAt(value, key) ==
    IF value.t = "object" /\ key \in DOMAIN value.v /\ value.v[key].t = "array"
    THEN value.v[key].v ELSE <<>>

\* The fields of the given names that the elements of the array at the path have,
\* as <<path, value>>.
FieldsOf(elements, path, names) ==
    { <<path \o <<ToString(i - 1), name>>, elements[i].v[name]>> :
        i \in {j \in 1..Len(elements) : elements[j].t = "object"}, name \in names }

Present(fields) == {f \in fields : f[2].t # "undefined"}

\* Every <<path, elements>> for the exercises arrays of a session and for the
\* sets arrays of its exercises.
ExerciseArrays(data) ==
    { <<<<"workoutBlocks", ToString(b - 1), "exercises">>,
        ElementsAt(ElementsAt(data, "workoutBlocks")[b], "exercises")>> :
        b \in 1..Len(ElementsAt(data, "workoutBlocks")) }

SetArrays(data) ==
    UNION { { <<a[1] \o <<ToString(e - 1), "sets">>, ElementsAt(a[2][e], "sets")>> :
                e \in 1..Len(a[2]) } : a \in ExerciseArrays(data) }

SafeGet(value, name) == IF value.t = "object" THEN Get(value.v, name) ELSE Undefined

\* The rest durations of a value, as <<path, value>>.
RestFieldsOf(data) ==
    Present({ <<<<"workoutBlocks", ToString(b - 1), name>>,
                SafeGet(ElementsAt(data, "workoutBlocks")[b], name)>> :
                b \in 1..Len(ElementsAt(data, "workoutBlocks")),
                name \in {"restBetweenSets", "restBetweenBlocks"} }
            \cup UNION { { <<a[1] \o <<ToString(n - 1), "restAfterSet">>,
                             SafeGet(a[2][n], "restAfterSet")>> : n \in 1..Len(a[2]) }
                         : a \in SetArrays(data) })

\* The messages of result1 about the field at the path: any message zod has for
\* a number or an array there.
ErrorsAt(path) ==
    { m \in { Join(path, ".") \o ": " \o reason :
                reason \in { "Number must be greater than or equal to 0",
                             "Number must be less than or equal to 3600",
                             "Array must contain at least 1 element(s)",
                             "Required",
                             "Expected number, received string",
                             "Expected number, received null",
                             "Expected number, received array",
                             "Expected number, received object",
                             "Expected array, received string",
                             "Expected array, received null",
                             "Expected array, received number",
                             "Expected array, received object" } } :
        Contains(result1.errors, m) }

\* C9: a restAfterSet, restBetweenSets or restBetweenBlocks below 0 or above 3600
\* makes validateWorkoutSchema return isValid = false with an error at the
\* field's dotted path; 0 and 3600 give no error at the path; an accepted
\* session keeps its rest durations as they were given.
C9_RestBounds ==
    result1 # NotCalled =>
        /\ \A f \in RestFieldsOf(input) :
              /\ (f[2].t = "number" /\ f[2].v < 0) =>
                    /\ ~result1.isValid
                    /\ Contains(result1.errors,
                                Join(f[1], ".") \o ": Number must be greater than or equal to 0")
              /\ (f[2].t = "number" /\ f[2].v > 3600 * Unit) =>
                    /\ ~result1.isValid
                    /\ Contains(result1.errors,
                                Join(f[1], ".") \o ": Number must be less than or equal to 3600")
              /\ (f[2] \in {Whole(0), Whole(3600)} /\ ~result1.isValid) => ErrorsAt(f[1]) = {}
        /\ result1.isValid =>
              /\ RestFieldsOf(result1.validatedData) = RestFieldsOf(input)
              /\ \A f \in RestFieldsOf(input) : f[2].v >= 0 /\ f[2].v <= 3600 * Unit

\* C9's case: Scenario 2, a restAfterSet of 4000, was rejected with an error at
\* the field's path.
C9_Witness ==
    /\ result1 # NotCalled
    /\ <<<<"workoutBlocks", "0", "exercises", "0", "sets", "0", "restAfterSet">>, Whole(4000)>>
          \in RestFieldsOf(input)
    /\ ~result1.isValid
    /\ ErrorsAt(<<"workoutBlocks", "0", "exercises", "0", "sets", "0", "restAfterSet">>)
          = {"workoutBlocks.0.exercises.0.sets.0.restAfterSet: Number must be less than or equal to 3600"}

\* The <<path, value>> of the arrays that must not be empty, and of the
\* equipment arrays.
C10_NonEmptyArrays ==
    Present({<<<<"workoutBlocks">>, SafeGet(input, "workoutBlocks")>>}
            \cup FieldsOf(ElementsAt(input, "workoutBlocks"), <<"workoutBlocks">>, {"exercises"})
            \cup UNION { FieldsOf(a[2], a[1], {"sets"}) : a \in ExerciseArrays(input) })

C10_EquipmentArrays ==
    Present(UNION { FieldsOf(a[2], a[1], {"equipment"}) : a \in ExerciseArrays(input) })

\* C10: an empty workoutBlocks, exercises or sets makes validateWorkoutSchema
\* return isValid = false with an error at the array's path; an empty equipment
\* gives no error, and the input is accepted exactly when it is accepted with a
\* piece of equipment in that array.
C10_Cardinality ==
    result1 # NotCalled =>
        /\ \A f \in C10_NonEmptyArrays :
              f[2] = Arr(<<>>) =>
                  /\ ~result1.isValid
                  /\ Contains(result1.errors,
                              Join(f[1], ".") \o ": Array must contain at least 1 element(s)")
        /\ \A f \in C10_EquipmentArrays :
              f[2] = Arr(<<>>) =>
                  /\ ~result1.isValid => ErrorsAt(f[1]) = {}
                  /\ result1.isValid
                     = validateWorkoutSchema(SetAt(input, f[1], Arr(<<Str("barbell")>>))).isValid

\* C10's case: Scenario 5, an empty workoutBlocks, was rejected with the error
\* at workoutBlocks.
C10_Witness ==
    /\ result1 # NotCalled
    /\ SafeGet(input, "workoutBlocks") = Arr(<<>>)
    /\ ~result1.isValid
    /\ Contains(result1.errors, "workoutBlocks: Array must contain at least 1 element(s)")

\* The setNumber fields of a value, as <<path, value>>.
SetNumbersOf(data) ==
    Present(UNION { { <<a[1] \o <<ToString(n - 1), "setNumber">>, SafeGet(a[2][n], "setNumber")>> :
                        n \in 1..Len(a[2]) } : a \in SetArrays(data) })

\* Whether the number is no integer: its value is no multiple of Unit.
Fractional(number) == number.v % Unit # 0

\* C11: a session in which some set's setNumber is zero, negative or a number
\* that is no integer is rejected by validateWorkoutSchema.
C11_PositiveInteger ==
    result1 # NotCalled =>
        \A f \in SetNumbersOf(input) :
            (f[2].t = "number" /\ (f[2].v <= 0 \/ Fractional(f[2]))) => ~result1.isValid

\* Whether the value satisfies the schema of a string, a number or an enum.
C12_LeafHolds(schema, data) ==
    CASE schema.type = "string" ->
            /\ data.t = "string"
            /\ \A i \in 1..Len(schema.checks) : ~StringCheckFails(schema.checks[i], data.v)
      [] schema.type = "number" ->
            /\ data.t = "number"
            /\ \A i \in 1..Len(schema.checks) : ~NumberCheckFails(schema.checks[i], data.v)
      [] schema.type = "enum" ->
            /\ data.t = "string"
            /\ \E i \in 1..Len(schema.values) : schema.values[i] = data.v

RECURSIVE C12_ViolatedFields(_, _, _)
\* The paths of the fields of the value that violate the schema, in the order
\* of the traversal: the keys of an object in the order of the schema's
\* declaration, the elements of an array in the order of the document, a
\* field before the fields below it.  A field that is no object or array of
\* the declared kind, or an array that is too short, is violated itself.
C12_ViolatedFields(schema, data, path) ==
    CASE schema.type = "optional" ->
            IF data = Undefined THEN <<>> ELSE C12_ViolatedFields(schema.inner, data, path)
      [] schema.type = "object" ->
            IF data.t # "object" THEN <<path>>
            ELSE Flatten([i \in 1..Len(schema.shape) |->
                            C12_ViolatedFields(schema.shape[i].schema,
                                               Get(data.v, schema.shape[i].key),
                                               Append(path, schema.shape[i].key))])
      [] schema.type = "array" ->
            IF data.t # "array" THEN <<path>>
            ELSE (IF Len(data.v) < schema.minLength THEN <<path>> ELSE <<>>)
                 \o Flatten([i \in 1..Len(data.v) |->
                               C12_ViolatedFields(schema.element, data.v[i],
                                                  Append(path, ToString(i - 1)))])
      [] OTHER -> IF C12_LeafHolds(schema, data) THEN <<>> ELSE <<path>>

\* The messages for the violated fields: the dotted path of each, then the
\* reason zod gives for it.
C12_Messages(fields, issues) ==
    /\ Len(result1.errors) = Len(fields)
    /\ Len(issues) = Len(fields)
    /\ \A i \in 1..Len(fields) :
          result1.errors[i] = Join(fields[i], ".") \o ": " \o issues[i].message

\* C12: when the structure of the input is violated, validateWorkoutSchema
\* returns exactly one message for each violated field, "<dotted path>: <reason>",
\* in the order of the traversal (schema declaration order of the keys,
\* document order of the array elements); with no violated field it accepts.
C12_OneMessagePerField ==
    (result1 # NotCalled /\ ~ReadThrows(input)) =>
        /\ result1.isValid = (C12_ViolatedFields(WorkoutSessionSchema, input, <<>>) = <<>>)
        /\ ~result1.isValid =>
              C12_Messages(C12_ViolatedFields(WorkoutSessionSchema, input, <<>>),
                           _parse(WorkoutSessionSchema, input, <<>>).issues)

\* C12's case: two fields are violated in different elements of an array, and
\* the two messages came back, the earlier element's first.
C12_Witness ==
    /\ result1 # NotCalled
    /\ ~result1.isValid
    /\ C12_ViolatedFields(WorkoutSessionSchema, input, <<>>)
          = << <<"workoutBlocks", "0", "exercises", "0", "sets", "0", "restAfterSet">>,
               <<"workoutBlocks", ToString(MaxBlocks - 1), "restBetweenSets">> >>
    /\ result1.errors
          = << "workoutBlocks.0.exercises.0.sets.0.restAfterSet: Number must be less than or equal to 3600",
               "workoutBlocks." \o ToString(MaxBlocks - 1)
                  \o ".restBetweenSets: Number must be greater than or equal to 0" >>

\* The supersetWith entries of the input that are the exerciseId of no exercise
\* of their block, as <<block, exercise, entry>> positions.
C13_Unresolved ==
    UNION { UNION { { <<b, e, k>> :
                        k \in { j \in 1..Len(ReferencesOf(ExercisesOf(BlocksOf(input)[b])[e])) :
                                  ~C3_InBlock(BlocksOf(input)[b],
                                              ReferencesOf(ExercisesOf(BlocksOf(input)[b])[e])[j]) } }
                    : e \in 1..Len(ExercisesOf(BlocksOf(input)[b])) }
            : b \in 1..Len(BlocksOf(input)) }

\* Document order: by block, then by exercise, then by entry.
C13_Before(p, q) ==
    \/ p[1] < q[1]
    \/ p[1] = q[1] /\ p[2] < q[2]
    \/ p[1] = q[1] /\ p[2] = q[2] /\ p[3] < q[3]

\* The position in the errors list of the message for an unresolved entry.
C13_Rank(p) == Cardinality({q \in C13_Unresolved : C13_Before(q, p)}) + 1

C13_Message(p) ==
    "Superset reference "
    \o ReferencesOf(ExercisesOf(BlocksOf(input)[p[1]])[p[2]])[p[3]].v
    \o " not found in block " \o BlocksOf(input)[p[1]].v.blockId.v

\* C13: for a structurally valid session the errors of validateExerciseLinking
\* are the messages of the unresolved supersetWith entries, one for each entry,
\* by block, then by exercise, then by entry, all in document order.
C13_TraversalOrder ==
    (result2 # NotCalled /\ SchemaValid) =>
        /\ result2.isValid = (C13_Unresolved = {})
        /\ ~result2.isValid =>
              /\ Len(result2.errors) = Cardinality(C13_Unresolved)
              /\ \A p \in C13_Unresolved : result2.errors[C13_Rank(p)] = C13_Message(p)

\* C13's case: an exercise lists a missing ID twice, and the message for the
\* missing ID came back twice.
C13_Witness ==
    /\ result2 # NotCalled
    /\ SchemaValid
    /\ \E p \in C13_Unresolved, q \in C13_Unresolved :
          /\ p[1] = q[1] /\ p[2] = q[2] /\ p[3] < q[3]
          /\ C13_Message(p) = C13_Message(q)
    /\ Len(result2.errors) = 2
    /\ result2.errors[1] = result2.errors[2]

\* The linkedToWorkout values of the exercises of a value, as <<path, value>>.
C14_LinkedWorkouts ==
    Present(UNION { { <<a[1] \o <<ToString(e - 1), "linkedToWorkout">>,
                        SafeGet(a[2][e], "linkedToWorkout")>> : e \in 1..Len(a[2]) }
                    : a \in ExerciseArrays(input) })

\* Whether the value fails the pattern validateExerciseLinking tests it against.
C14_FailsPattern(value) == value.t # "string" \/ ~LinkedWorkoutPattern(value.v)

\* C14: validateExerciseLinking never returns an 'Invalid linked workout UUID'
\* message: an input with a linkedToWorkout that fails the UUID pattern is
\* rejected by validateWorkoutSchema, and validateExerciseLinking returns the
\* one structural-failure message for it.
C14_LinkedWorkoutCheckRedundant ==
    result2 # NotCalled =>
        \A f \in C14_LinkedWorkouts :
            /\ (~result2.isValid /\ f[2].t = "string") =>
                  ~Contains(result2.errors, "Invalid linked workout UUID: " \o f[2].v)
            /\ C14_FailsPattern(f[2]) =>
                  /\ ~result1.isValid
                  /\ result2 = StructureFailure

\* C14's case: an exercise whose linkedToWorkout is 'not-a-uuid' was masked
\* by the structural failure.
C14_Witness ==
    /\ result2 # NotCalled
    /\ \E f \in C14_LinkedWorkouts : f[2] = Str("not-a-uuid")
    /\ result2 = StructureFailure

\* What one invocation may do to the cache.
C15_Step ==
    /\ (cachedClient' = Null) = (cachedDb' = Null)
    \* a cached client is reused, and connect() is not called again
    /\ cachedClient # Null =>
          /\ connection' = "reused"
          /\ cachedClient' = cachedClient /\ cachedDb' = cachedDb
    \* with an empty cache connect() is called; the cache is set after it
    \* succeeded and stays empty after it failed
    /\ cachedClient = Null =>
          /\ connection' \in {"connected", "failed"}
          /\ (connection' = "connected") = (cachedClient' # Null)
          /\ (connection' = "failed") = (cachedClient' = Null)

\* C15: over the invocations of one container cachedClient and cachedDb are
\* both null or both set; they are set only by an invocation whose connect()
\* succeeded; once they are set every invocation reuses them without calling
\* connect(); after a failed connect() they stay null, and the next
\* invocation calls connect() again.
C15_ConnectionCache ==
    /\ (cachedClient = Null) = (cachedDb = Null)
    /\ [][C15_Step]_vars

\* C15's case: an invocation found the client cached and reused it.
C15_Witness ==
    /\ connection = "reused"
    /\ cachedClient = TheClient
    /\ cachedDb = TheDb

\* The routes the handler serves.
C16_Routes == {<<"/templates", "GET">>, <<"/workouts", "GET">>, <<"/workouts", "POST">>}

C16_Matched == <<request.path, request.httpMethod>> \in C16_Routes

\* C16: every invocation is answered with a statusCode of 200, 201, 404 or
\* 500; 404 'Route not found' is the answer exactly when the route is none of
\* the handler's and connectToDatabase succeeded; when the connection failed
\* the answer is 500 'Internal server error', whatever the route.
C16_StatusCodes ==
    request # NoRequest =>
        /\ response.statusCode \in {200, 201, 404, 500}
        /\ response.statusCode = 404 =>
              /\ ~C16_Matched
              /\ connection \in {"connected", "reused"}
              /\ response.body.message = "Route not found"
        /\ (~C16_Matched /\ connection \in {"connected", "reused"}) => response.statusCode = 404
        /\ connection = "failed" =>
              /\ response.statusCode = 500
              /\ "message" \in DOMAIN response.body
              /\ response.body.message = "Internal server error"

\* C16's case: a request to a route the handler does not serve, in a
\* container that could not connect, was answered with 500.
C16_Witness ==
    /\ request # NoRequest
    /\ ~C16_Matched
    /\ connection = "failed"
    /\ response.statusCode = 500
    /\ response.body.message = "Internal server error"

====
